---- MODULE Spec2Model ----
(***************************************************************************)
(* The voxel world store of minecraft-clone (zustand store `useAppStore`,  *)
(* src/unnamed/part_001): the chunked block grid, the coordinate mapping,  *)
(* bounds checking, terrain generation, the occlusion test and the         *)
(* visible-block list the World component hands to the instanced mesh.     *)
(*                                                                         *)
(* Numbers.  JavaScript numbers that are integers in every execution       *)
(* (coordinates, chunk and block counts, seed) are integers here.  The     *)
(* fractional terrain parameters and the noise value are fixed-point       *)
(* numbers with denominator NoiseUnit: magnitude m stands for m/NoiseUnit, *)
(* offset o for o/NoiseUnit, a noise value v for v/NoiseUnit.              *)
(***************************************************************************)
EXTENDS Integers, Sequences, FiniteSets, TLC

VARIABLES
    grid,            \* world.grid: Block[][][][][], nested sequences (index k of the source is k + 1 here)
    size,            \* world.params.size
    terrain,         \* world.params.terrain
    lastOp,          \* history: the store operation that ran last
    configured,      \* history: whether initializeGrid has run
    populated,       \* history: whether generateTerrain has run to its end
    thrown,          \* history: whether that operation ended with an exception
    setCalls,        \* history: number of setBlockType calls made so far
    rebuild,         \* history: <<a, b>>: the last calls were a initializeGrid calls with the same
                     \* dims, then b generateTerrain calls (3 stands for three or more)
    onceGrid,        \* history: << >>, or <<g>> with g the grid after initializeGrid(dims); generateTerrain()
                     \* ran once each for the current dims
    generatedWith,   \* history: << >>, or <<t>> with t the terrain params the last generateTerrain
                     \* call that ran to its end read
    view             \* the World component: what its last render saw and its memoised lists

vars == <<grid, size, terrain, lastOp, configured, populated, thrown, setCalls, rebuild,
          onceGrid, generatedWith, view>>

------------------------------------------------------------------------------
(* Bounds of the model *)

\* denominator of the fixed-point fractions (magnitude, offset, noise value)
NoiseUnit == 2

\* number of setBlockType calls explored in one behaviour
MaxSetCalls == 1

\* dims handed to initializeGrid:
\* <<chunkCountX, chunkCountZ, blocksPerChunkX, blocksPerChunkY, blocksPerChunkZ>>
SizeChoices ==
    { <<1, 1, 1, 1, 1>>,
      <<2, 1, 1, 2, 1>>,
      <<1, 2, 3, 1, 2>>,
      <<3, 1, 1, 3, 3>> }

\* terrain params a behaviour runs with: scale, magnitude, offset (in 1/NoiseUnit), seed
ScaleChoices == {1, 2}
MagnitudeChoices == {1, 2}
OffsetChoices == {1}
SeedChoices == {0, 1}

------------------------------------------------------------------------------
(* Data model *)

\* enum BlockType
BlockType == {"Air", "Dirt", "Grass"}

BLOCK_META_DATA_MAP ==
    [t \in BlockType |->
        CASE t = "Air"   -> [isSolid |-> FALSE, name |-> "Air"]
          [] t = "Dirt"  -> [isSolid |-> TRUE,  name |-> "Dirt"]
          [] t = "Grass" -> [isSolid |-> TRUE,  name |-> "Grass"]]

\* JavaScript's null, as getBlock returns it and as instanceId holds it
Null == [null |-> TRUE]

\* the initial `grid: [] as BlockGrid`
EmptyGrid == << >>

SizeRecord(d) ==
    [chunkCountX |-> d[1], chunkCountZ |-> d[2],
     blocksPerChunkX |-> d[3], blocksPerChunkY |-> d[4], blocksPerChunkZ |-> d[5]]

\* the store's initial size params (4, 4, 16, 16, 16 in the source), scaled down
InitialSize == SizeRecord(<<3, 1, 1, 3, 3>>)

Max(a, b) == IF a >= b THEN a ELSE b
Min(a, b) == IF a <= b THEN a ELSE b

\* JavaScript's % : the remainder takes the sign of the dividend
JsRem(a, b) == IF a >= 0 THEN a % b ELSE -((-a) % b)

------------------------------------------------------------------------------
(* Coordinate mapping and lookup *)

\* variant: the z chunk index computed from the x chunk width
worldToBlockCoords_ChunkZByX(x, y, z) ==
    [chunkX |-> x \div size.blocksPerChunkX,
     chunkZ |-> z \div size.blocksPerChunkX,
     blockX |-> JsRem(x, size.blocksPerChunkX),
     blockY |-> JsRem(y, size.blocksPerChunkY),
     blockZ |-> JsRem(z, size.blocksPerChunkZ)]

worldToBlockCoords(x, y, z) ==
    [chunkX |-> x \div size.blocksPerChunkX,
     chunkZ |-> z \div size.blocksPerChunkZ,
     blockX |-> JsRem(x, size.blocksPerChunkX),
     blockY |-> JsRem(y, size.blocksPerChunkY),
     blockZ |-> JsRem(z, size.blocksPerChunkZ)]

\* variant: the upper limits taken as inclusive
isBlockInBounds_Inclusive(x, y, z) ==
    LET isXInBounds == x >= 0 /\ x <= size.blocksPerChunkX * size.chunkCountX
        isYInBounds == y >= 0 /\ y <= size.blocksPerChunkY
        isZInBounds == z >= 0 /\ z <= size.blocksPerChunkZ * size.chunkCountZ
    IN  isXInBounds /\ isYInBounds /\ isZInBounds

isBlockInBounds(x, y, z) ==
    LET isXInBounds == x >= 0 /\ x < size.blocksPerChunkX * size.chunkCountX
        isYInBounds == y >= 0 /\ y < size.blocksPerChunkY
        isZInBounds == z >= 0 /\ z < size.blocksPerChunkZ * size.chunkCountZ
    IN  isXInBounds /\ isYInBounds /\ isZInBounds

\* (grid)?.[chunkX]?.[chunkZ]?.[blockX]?.[blockY]?.[blockZ] ?? null
\* an index outside an array reads undefined, and ?. carries it through
Lookup(g, chunkX, chunkZ, blockX, blockY, blockZ) ==
    IF chunkX + 1 \notin DOMAIN g THEN Null
    ELSE IF chunkZ + 1 \notin DOMAIN g[chunkX + 1] THEN Null
    ELSE IF blockX + 1 \notin DOMAIN g[chunkX + 1][chunkZ + 1] THEN Null
    ELSE IF blockY + 1 \notin DOMAIN g[chunkX + 1][chunkZ + 1][blockX + 1] THEN Null
    ELSE IF blockZ + 1 \notin DOMAIN g[chunkX + 1][chunkZ + 1][blockX + 1][blockY + 1]
         THEN Null
    ELSE g[chunkX + 1][chunkZ + 1][blockX + 1][blockY + 1][blockZ + 1]

LookupAt(g, c) == Lookup(g, c.chunkX, c.chunkZ, c.blockX, c.blockY, c.blockZ)

\* variant: no bounds guard before the lookup (the store of src/src/App.tsx)
getBlock_Unguarded(x, y, z) == LookupAt(grid, worldToBlockCoords(x, y, z))

getBlock(x, y, z) ==
    IF ~isBlockInBounds(x, y, z)
    THEN Null
    ELSE LookupAt(grid, worldToBlockCoords(x, y, z))

\* variant: any block counted as solid, whatever its type
isSolidBlock_AnyType(block) == block # Null

\* block && BLOCK_META_DATA_MAP[block.type].isSolid
isSolidBlock(block) ==
    block # Null /\ BLOCK_META_DATA_MAP[block.type].isSolid

\* variant: the back neighbour left out of the test
isBlockObscured_NoBack(x, y, z) ==
    /\ isSolidBlock(getBlock(x, y + 1, z))
    /\ isSolidBlock(getBlock(x, y - 1, z))
    /\ isSolidBlock(getBlock(x - 1, y, z))
    /\ isSolidBlock(getBlock(x + 1, y, z))
    /\ isSolidBlock(getBlock(x, y, z - 1))

\* variant: only the four neighbours at the same height tested
isBlockObscured_SidesOnly(x, y, z) ==
    /\ isSolidBlock(getBlock(x - 1, y, z))
    /\ isSolidBlock(getBlock(x + 1, y, z))
    /\ isSolidBlock(getBlock(x, y, z - 1))
    /\ isSolidBlock(getBlock(x, y, z + 1))

\* variant: the test of the block above left out
isBlockObscured_NoTop(x, y, z) ==
    /\ isSolidBlock(getBlock(x, y - 1, z))
    /\ isSolidBlock(getBlock(x - 1, y, z))
    /\ isSolidBlock(getBlock(x + 1, y, z))
    /\ isSolidBlock(getBlock(x, y, z - 1))
    /\ isSolidBlock(getBlock(x, y, z + 1))

isBlockObscured(x, y, z) ==
    /\ isSolidBlock(getBlock(x, y + 1, z))    \* top
    /\ isSolidBlock(getBlock(x, y - 1, z))    \* bottom
    /\ isSolidBlock(getBlock(x - 1, y, z))    \* left
    /\ isSolidBlock(getBlock(x + 1, y, z))    \* right
    /\ isSolidBlock(getBlock(x, y, z - 1))    \* front
    /\ isSolidBlock(getBlock(x, y, z + 1))    \* back

------------------------------------------------------------------------------
(* Terrain generation *)

\* variant: the random source is not re-seeded on each generateTerrain call,
\* so the noise moves on with every run
simplex_NotReseeded(seed, x, z, scale) ==
    (((3 * x + 5 * z) \div scale + 3 * seed + rebuild[2]) % (2 * NoiseUnit + 1))
        - NoiseUnit

\* createNoise2D(() => seededRandom(seed)) applied to (x / scale, z / scale):
\* the library's coherent noise, a fixed function of the seed and of the two
\* arguments with values in [-1, 1]; here a fixed table in units of 1/NoiseUnit.
simplex(seed, x, z, scale) ==
    (((3 * x + 5 * z) \div scale + 3 * seed) % (2 * NoiseUnit + 1)) - NoiseUnit

\* offset + magnitude * value, in units of 1/NoiseUnit^2
scaledNoise(value) == terrain.offset * NoiseUnit + terrain.magnitude * value

\* Math.floor(blocksPerChunkY * scaledNoise)
height(sn) == (size.blocksPerChunkY * sn) \div (NoiseUnit * NoiseUnit)

\* variant: the height not clamped from below
clampedHeight_NoLowerClamp(h) == Min(h, size.blocksPerChunkY - 1)

\* variant: the height clamped to blocksPerChunkY instead of blocksPerChunkY - 1
clampedHeight_OffByOne(h) == Max(0, Min(h, size.blocksPerChunkY))

clampedHeight(h) == Max(0, Min(h, size.blocksPerChunkY - 1))

columnHeight(chunkX, chunkZ, blockX, blockZ) ==
    clampedHeight(height(scaledNoise(
        simplex(terrain.seed,
                chunkX * size.blocksPerChunkX + blockX,
                chunkZ * size.blocksPerChunkZ + blockZ,
                terrain.scale))))

\* variant: the branches of the inner conditional exchanged
terrainType_Exchanged(blockY, ch) ==
    IF blockY <= ch
    THEN (IF blockY = ch THEN "Dirt" ELSE "Grass")
    ELSE "Air"

terrainType(blockY, ch) ==
    IF blockY <= ch
    THEN (IF blockY = ch THEN "Grass" ELSE "Dirt")
    ELSE "Air"

\* variant: a block that is Air is left as it is
generatedBlock_KeepAir(old, blockY, ch) ==
    IF old.type = "Air" THEN old ELSE [old EXCEPT !.type = terrainType(blockY, ch)]

\* variant: the block built anew, without the spread of the block it replaces
generatedBlock_NoSpread(old, blockY, ch) ==
    [position |-> << >>, type |-> terrainType(blockY, ch), instanceId |-> Null]

\* { ...grid[chunkX][chunkZ][blockX][blockY][blockZ]!, type: ... }
generatedBlock(old, blockY, ch) ==
    [old EXCEPT !.type = terrainType(blockY, ch)]

\* grid[chunkX][chunkZ][blockX][blockY][blockZ] is read for every index the
\* nested Array.from({length: n}) calls run through; reading an index of
\* undefined is a TypeError
hasBlockArray(g, s) ==
    /\ Len(g) >= s.chunkCountX
    /\ \A cx \in 1 .. s.chunkCountX :
          /\ Len(g[cx]) >= s.chunkCountZ
          /\ \A cz \in 1 .. s.chunkCountZ :
                /\ Len(g[cx][cz]) >= s.blocksPerChunkX
                /\ \A bx \in 1 .. s.blocksPerChunkX :
                      Len(g[cx][cz][bx]) >= s.blocksPerChunkY

generateTerrainThrows ==
    /\ size.chunkCountX >= 1 /\ size.chunkCountZ >= 1 /\ size.blocksPerChunkX >= 1
    /\ size.blocksPerChunkY >= 1 /\ size.blocksPerChunkZ >= 1
    /\ ~hasBlockArray(grid, size)

generatedGrid ==
    [chunkX \in 1 .. size.chunkCountX |->
      [chunkZ \in 1 .. size.chunkCountZ |->
        [blockX \in 1 .. size.blocksPerChunkX |->
          [blockY \in 1 .. size.blocksPerChunkY |->
            [blockZ \in 1 .. size.blocksPerChunkZ |->
              generatedBlock(grid[chunkX][chunkZ][blockX][blockY][blockZ],
                             blockY - 1,
                             columnHeight(chunkX - 1, chunkZ - 1,
                                          blockX - 1, blockZ - 1))]]]]]

------------------------------------------------------------------------------
(* Grid allocation *)

newBlock(s, chunkX, chunkZ, blockX, blockY, blockZ) ==
    [position |-> <<chunkX * s.blocksPerChunkX + blockX,
                    blockY,
                    chunkZ * s.blocksPerChunkZ + blockZ>>,
     type |-> "Dirt",
     instanceId |-> Null]

\* variant: a block of the previous grid is kept where the new grid has its
\* place (a partial resize)
initializedGrid_KeepOld(s) ==
    [chunkX \in 1 .. s.chunkCountX |->
      [chunkZ \in 1 .. s.chunkCountZ |->
        [blockX \in 1 .. s.blocksPerChunkX |->
          [blockY \in 1 .. s.blocksPerChunkY |->
            [blockZ \in 1 .. s.blocksPerChunkZ |->
              IF Lookup(grid, chunkX - 1, chunkZ - 1, blockX - 1, blockY - 1,
                        blockZ - 1) # Null
              THEN Lookup(grid, chunkX - 1, chunkZ - 1, blockX - 1, blockY - 1,
                          blockZ - 1)
              ELSE newBlock(s, chunkX - 1, chunkZ - 1, blockX - 1, blockY - 1,
                            blockZ - 1)]]]]]

\* variant: the two chunk counts exchanged in the nesting of the arrays
initializedGrid_ChunksExchanged(s) ==
    [chunkX \in 1 .. s.chunkCountZ |->
      [chunkZ \in 1 .. s.chunkCountX |->
        [blockX \in 1 .. s.blocksPerChunkX |->
          [blockY \in 1 .. s.blocksPerChunkY |->
            [blockZ \in 1 .. s.blocksPerChunkZ |->
              newBlock(s, chunkX - 1, chunkZ - 1, blockX - 1, blockY - 1, blockZ - 1)]]]]]

initializedGrid(s) ==
    [chunkX \in 1 .. s.chunkCountX |->
      [chunkZ \in 1 .. s.chunkCountZ |->
        [blockX \in 1 .. s.blocksPerChunkX |->
          [blockY \in 1 .. s.blocksPerChunkY |->
            [blockZ \in 1 .. s.blocksPerChunkZ |->
              newBlock(s, chunkX - 1, chunkZ - 1, blockX - 1, blockY - 1, blockZ - 1)]]]]]

------------------------------------------------------------------------------
(* The visible-block list: useBlocks and World's solidBlockList *)

\* Array.prototype.flat, one level
RECURSIVE Flat(_)
Flat(arr) == IF arr = << >> THEN << >> ELSE Head(arr) \o Flat(Tail(arr))

\* chunkGrid.flat(4): the blocks in the order of the nested arrays
blockList == Flat(Flat(Flat(Flat(grid))))

\* variant: the Air test left out of the filter
isVisible_NoAirTest(block) ==
    ~isBlockObscured(block.position[1], block.position[2], block.position[3])

isVisible(block) ==
    block.type # "Air"
    /\ ~isBlockObscured(block.position[1], block.position[2], block.position[3])

\* World's solidBlockList, as rendered from the store's current grid
solidBlockList == SelectSeq(blockList, isVisible)

\* the World component as mounted, rendered once from the store as created:
\* the grid its selector returned, the grid useBlocks' blockList was computed
\* from, and the memoised solidBlockList
InitialView == [seen |-> EmptyGrid, memoGrid |-> EmptyGrid, rendered |-> << >>]

------------------------------------------------------------------------------
(* The store's operations *)

Init ==
    /\ grid = EmptyGrid
    /\ size = InitialSize
    /\ terrain \in [scale : ScaleChoices, magnitude : MagnitudeChoices,
                    offset : OffsetChoices, seed : SeedChoices]
    /\ lastOp = "create"
    /\ configured = FALSE
    /\ populated = FALSE
    /\ thrown = FALSE
    /\ setCalls = 0
    /\ rebuild = <<0, 0>>
    /\ onceGrid = << >>
    /\ generatedWith = << >>
    /\ view = InitialView

\* initializeGrid(chunkCountX, chunkCountZ, blocksPerChunkX, blocksPerChunkY, blocksPerChunkZ)
initializeGrid(d) ==
    /\ size' = SizeRecord(d)
    /\ grid' = initializedGrid(SizeRecord(d))
    /\ UNCHANGED terrain
    /\ lastOp' = "initializeGrid"
    /\ configured' = TRUE
    /\ UNCHANGED populated
    /\ thrown' = FALSE
    /\ UNCHANGED setCalls
    /\ rebuild' = IF SizeRecord(d) = size /\ rebuild[1] >= 1 /\ rebuild[2] = 0
                  THEN <<Min(rebuild[1] + 1, 3), 0>> ELSE <<1, 0>>
    /\ onceGrid' = IF SizeRecord(d) = size THEN onceGrid ELSE << >>
    /\ UNCHANGED <<generatedWith, view>>

InitializeGridWith == \E d \in SizeChoices : initializeGrid(d)

\* initializeGrid() with no arguments: every dimension defaults to the stored one
InitializeGridDefault ==
    initializeGrid(<<size.chunkCountX, size.chunkCountZ, size.blocksPerChunkX,
                     size.blocksPerChunkY, size.blocksPerChunkZ>>)

\* variant: the read of a missing block array is guarded, the call returns
\* without an exception and without a change
GenerateTerrain_Silent ==
    /\ lastOp' = "generateTerrain"
    /\ UNCHANGED <<size, terrain, setCalls, configured, view>>
    /\ thrown' = FALSE
    /\ IF generateTerrainThrows
       THEN UNCHANGED <<grid, populated, rebuild, onceGrid, generatedWith>>
       ELSE /\ grid' = generatedGrid
            /\ populated' = TRUE
            /\ generatedWith' = <<terrain>>
            /\ rebuild' = IF rebuild[1] >= 1
                          THEN <<rebuild[1], Min(rebuild[2] + 1, 3)>>
                          ELSE <<0, 0>>
            /\ onceGrid' = IF rebuild = <<1, 0>> /\ onceGrid = << >>
                           THEN <<generatedGrid>> ELSE onceGrid

\* generateTerrain(): the exception of the state producer leaves the store's
\* state as it was and reaches the caller
GenerateTerrain ==
    /\ lastOp' = "generateTerrain"
    /\ UNCHANGED <<size, terrain, setCalls, configured, view>>
    /\ IF generateTerrainThrows
       THEN /\ thrown' = TRUE
            /\ UNCHANGED <<grid, populated, rebuild, onceGrid, generatedWith>>
       ELSE /\ thrown' = FALSE
            /\ grid' = generatedGrid
            /\ populated' = TRUE
            /\ generatedWith' = <<terrain>>
            /\ rebuild' = IF rebuild[1] >= 1
                          THEN <<rebuild[1], Min(rebuild[2] + 1, 3)>>
                          ELSE <<0, 0>>
            /\ onceGrid' = IF rebuild = <<1, 0>> /\ onceGrid = << >>
                           THEN <<generatedGrid>> ELSE onceGrid

setBlockType(x, y, z, type) ==
    LET c == worldToBlockCoords(x, y, z)
    IN  /\ setCalls < MaxSetCalls
        /\ setCalls' = setCalls + 1
        /\ grid' = IF getBlock(x, y, z) # Null
                   THEN [grid EXCEPT ![c.chunkX + 1][c.chunkZ + 1][c.blockX + 1]
                                      [c.blockY + 1][c.blockZ + 1].type = type]
                   ELSE grid
        /\ UNCHANGED <<size, terrain, onceGrid, configured, populated, generatedWith, view>>
        /\ lastOp' = "setBlockType"
        /\ thrown' = FALSE
        /\ rebuild' = <<0, 0>>

\* the coordinates handed to setBlockType: the world and one step around it
CoordChoices ==
    (-1 .. size.chunkCountX * size.blocksPerChunkX) \X
    (-1 .. size.blocksPerChunkY) \X
    (-1 .. size.chunkCountZ * size.blocksPerChunkZ)

SetBlockType ==
    \E c \in CoordChoices, t \in BlockType : setBlockType(c[1], c[2], c[3], t)

Next ==
    \/ InitializeGridWith
    \/ InitializeGridDefault
    \/ GenerateTerrain
    \/ SetBlockType

Spec == Init /\ [][Next]_vars

------------------------------------------------------------------------------
(* The store called with any numbers: neither initializeGrid nor             *)
(* generateTerrain tests its numbers, and useAppStore.setState stores any    *)
(* terrain scale                                                             *)

\* dims with a zero or negative entry; Array.from({length: n}) is [] for n <= 0
NonPositiveDimsChoices ==
    { <<0, 1, 1, 1, 1>>,
      <<1, 1, 1, 0, 1>>,
      <<1, 2, -1, 1, 1>>,
      <<-1, -1, 1, 2, 1>> }

AnyDimsChoices ==
    { <<1, 1, 1, 1, 1>>, <<2, 1, 1, 2, 1>> } \cup NonPositiveDimsChoices

AnyScaleChoices == {-1, 1}

InitAnyScale ==
    /\ grid = EmptyGrid
    /\ size = InitialSize
    /\ terrain \in [scale : AnyScaleChoices, magnitude : MagnitudeChoices,
                    offset : OffsetChoices, seed : SeedChoices]
    /\ lastOp = "create"
    /\ configured = FALSE
    /\ populated = FALSE
    /\ thrown = FALSE
    /\ setCalls = 0
    /\ rebuild = <<0, 0>>
    /\ onceGrid = << >>
    /\ generatedWith = << >>
    /\ view = InitialView

InitializeGridWithAny == \E d \in AnyDimsChoices : initializeGrid(d)

NextAny ==
    \/ InitializeGridWithAny
    \/ InitializeGridDefault
    \/ GenerateTerrain

SpecAny == InitAnyScale /\ [][NextAny]_vars

------------------------------------------------------------------------------
(* A world with several inner blocks, edited: the store after                *)
(* initializeGrid(2, 1, 3, 3, 3), a world of 6 x 3 x 3 blocks in two chunks  *)

CaveDims == <<2, 1, 3, 3, 3>>

\* the coordinates handed to setBlockType: the blocks of the world's middle
\* layer, the inner ones among them
CaveCoordChoices == (0 .. 5) \X {1} \X (0 .. 2)

InitCave ==
    /\ grid = initializedGrid(SizeRecord(CaveDims))
    /\ size = SizeRecord(CaveDims)
    /\ terrain \in [scale : ScaleChoices, magnitude : MagnitudeChoices,
                    offset : OffsetChoices, seed : SeedChoices]
    /\ lastOp = "initializeGrid"
    /\ configured = TRUE
    /\ populated = FALSE
    /\ thrown = FALSE
    /\ setCalls = 0
    /\ rebuild = <<1, 0>>
    /\ onceGrid = << >>
    /\ generatedWith = << >>
    /\ view = InitialView

SetBlockTypeInCave ==
    \E c \in CaveCoordChoices, t \in BlockType : setBlockType(c[1], c[2], c[3], t)

NextCave ==
    \/ SetBlockTypeInCave
    \/ GenerateTerrain
    \/ InitializeGridDefault

SpecCave == InitCave /\ [][NextCave]_vars

------------------------------------------------------------------------------
(* The store of src/src/App.tsx: two block types, getBlock without a bounds  *)
(* test, generateTerrain made of setBlockType calls, initializeGrid filling  *)
(* the grid with Air                                                         *)

\* enum BlockType { Air, Dirt }
App_BlockType == {"Air", "Dirt"}

App_worldToBlockCoords(x, y, z, blocksPerChunkX, blocksPerChunkY, blocksPerChunkZ) ==
    [chunkX |-> x \div blocksPerChunkX,
     chunkZ |-> z \div blocksPerChunkZ,
     blockX |-> JsRem(x, blocksPerChunkX),
     blockY |-> JsRem(y, blocksPerChunkY),
     blockZ |-> JsRem(z, blocksPerChunkZ)]

\* getBlock(x, y, z, grid): the lookup alone
App_getBlock(x, y, z, g) ==
    LookupAt(g, App_worldToBlockCoords(x, y, z, size.blocksPerChunkX,
                                       size.blocksPerChunkY, size.blocksPerChunkZ))

\* the grid one setBlockType(x, y, z, type) call leaves, made on the grid g
App_setBlockType(x, y, z, type, g) ==
    LET c == App_worldToBlockCoords(x, y, z, size.blocksPerChunkX,
                                    size.blocksPerChunkY, size.blocksPerChunkZ)
    IN  IF App_getBlock(x, y, z, g) # Null
        THEN [g EXCEPT ![c.chunkX + 1][c.chunkZ + 1][c.blockX + 1]
                        [c.blockY + 1][c.blockZ + 1].type = type]
        ELSE g

App_clampedHeight(x, z) ==
    clampedHeight(height(scaledNoise(simplex(terrain.seed, x, z, terrain.scale))))

\* the grid after the first n setBlockType calls of generateTerrain; the calls
\* run through x, then z, then y
RECURSIVE App_terrainCalls(_, _)
App_terrainCalls(g, n) ==
    IF n = 0 THEN g
    ELSE LET m == n - 1
             blockCountZ == size.chunkCountZ * size.blocksPerChunkZ
             x == m \div (blockCountZ * size.blocksPerChunkY)
             z == (m \div size.blocksPerChunkY) % blockCountZ
             y == m % size.blocksPerChunkY
         IN  CHOOSE r \in { App_setBlockType(x, y, z,
                                IF y <= App_clampedHeight(x, z) THEN "Dirt" ELSE "Air",
                                before)
                            : before \in {App_terrainCalls(g, m)} } : TRUE

App_newBlock(s, chunkX, chunkZ, blockX, blockY, blockZ) ==
    [position |-> <<chunkX * s.blocksPerChunkX + blockX,
                    blockY,
                    chunkZ * s.blocksPerChunkZ + blockZ>>,
     type |-> "Air",
     instanceId |-> Null]

App_initializedGrid(s) ==
    [chunkX \in 1 .. s.chunkCountX |->
      [chunkZ \in 1 .. s.chunkCountZ |->
        [blockX \in 1 .. s.blocksPerChunkX |->
          [blockY \in 1 .. s.blocksPerChunkY |->
            [blockZ \in 1 .. s.blocksPerChunkZ |->
              App_newBlock(s, chunkX - 1, chunkZ - 1, blockX - 1, blockY - 1,
                           blockZ - 1)]]]]]

\* initializeGrid(...); a call without arguments takes the default dims, which
\* are the dims the store is created with
App_InitializeGrid ==
    \E d \in SizeChoices :
        /\ size' = SizeRecord(d)
        /\ grid' = App_initializedGrid(SizeRecord(d))
        /\ lastOp' = "initializeGrid"
        /\ configured' = TRUE
        /\ thrown' = FALSE
        /\ UNCHANGED <<terrain, populated, setCalls, rebuild, onceGrid, generatedWith, view>>

App_GenerateTerrain ==
    /\ grid' = App_terrainCalls(grid,
                    size.chunkCountX * size.blocksPerChunkX
                        * size.chunkCountZ * size.blocksPerChunkZ
                        * size.blocksPerChunkY)
    /\ lastOp' = "generateTerrain"
    /\ populated' = TRUE
    /\ thrown' = FALSE
    /\ generatedWith' = <<terrain>>
    /\ UNCHANGED <<size, terrain, configured, setCalls, rebuild, onceGrid, view>>

App_SetBlockType ==
    \E c \in CoordChoices, t \in App_BlockType :
        /\ setCalls < MaxSetCalls
        /\ setCalls' = setCalls + 1
        /\ grid' = App_setBlockType(c[1], c[2], c[3], t, grid)
        /\ lastOp' = "setBlockType"
        /\ thrown' = FALSE
        /\ UNCHANGED <<size, terrain, configured, populated, rebuild, onceGrid,
                       generatedWith, view>>

NextApp ==
    \/ App_InitializeGrid
    \/ App_GenerateTerrain
    \/ App_SetBlockType

SpecApp == Init /\ [][NextApp]_vars

------------------------------------------------------------------------------
(* The World component rendering the store: useBlocks' selector and          *)
(* blockList memo, World's solidBlockList memo.  The store's operations run  *)
(* in any order; a render follows a change of the selected grid.             *)

\* dims and coordinates handed to the store while the component is mounted
ViewDimsChoices == { <<2, 1, 1, 2, 1>> }

ViewCoordChoices == { <<1, 1, 1>>, <<0, 0, 0>>, <<-1, 0, 0>> }

\* variant: the memo keyed on the number of blocks instead of the grid
blockListStale_ByLength ==
    Len(Flat(Flat(Flat(Flat(view.memoGrid))))) # Len(blockList)

\* useMemo(() => chunkGrid.flat(4), [chunkGrid]): computed anew when chunkGrid
\* is another array than at the last computation.  A store operation that
\* changes a block replaces the arrays on the path to it, so another array is
\* another value here.
blockListStale == view.memoGrid # grid

\* the component re-renders when the selector's result has changed; the memo
\* of solidBlockList depends on blockList (isBlockObscured is the same
\* function throughout), and its filter reads the store as it is then
Render ==
    /\ view.seen # grid
    /\ view' = IF blockListStale
               THEN [seen |-> grid, memoGrid |-> grid, rendered |-> solidBlockList]
               ELSE [view EXCEPT !.seen = grid]
    /\ UNCHANGED <<grid, size, terrain, lastOp, configured, populated, thrown, setCalls,
                   rebuild, onceGrid, generatedWith>>

InitializeGridInView == \E d \in ViewDimsChoices : initializeGrid(d)

SetBlockTypeInView ==
    \E c \in ViewCoordChoices, t \in BlockType : setBlockType(c[1], c[2], c[3], t)

NextView ==
    \/ InitializeGridDefault
    \/ InitializeGridInView
    \/ GenerateTerrain
    \/ SetBlockTypeInView
    \/ Render

SpecView == Init /\ [][NextView]_vars

------------------------------------------------------------------------------
(* The store driven by the component: World's mount effect and the           *)
(* controllers and buttons of useWorldGui.  A handler runs to its end before *)
(* the next one starts; lastOp tells how far the running handler has come.   *)

\* upper end of the seed controller's range
SeedLimit == 10000

\* values the terrain controllers are set to (scale and magnitude: the sets
\* above); offset in 1/NoiseUnit: the two ends of its range
GuiOffsetChoices == {0, NoiseUnit}
GuiSeedChoices == {0, SeedLimit}

\* number of 'Generate world with new seed' clicks explored above a value of
\* the seed controller
MaxSeedClicks == 1

\* the largest value of the seed controller not above the stored seed
SeedBase ==
    CHOOSE b \in GuiSeedChoices :
        b <= terrain.seed /\ \A c \in GuiSeedChoices : c <= terrain.seed => c <= b

\* no handler is running: the mount effect has run, and the last handler has
\* made its last store call
GuiIdle == lastOp \notin {"create", "initializeGrid", "incrementSeed"}

\* variant: the controller's handler also builds the terrain anew
setTerrainParam_Regenerate(param, v) ==
    /\ terrain' = [terrain EXCEPT ![param] = v]
    /\ grid' = generatedGrid
    /\ lastOp' = "setState"
    /\ thrown' = FALSE
    /\ rebuild' = <<0, 0>>
    /\ onceGrid' = << >>
    /\ UNCHANGED <<size, configured, populated, setCalls, generatedWith, view>>

\* onFinishChange: useAppStore.setState(state => { state.world.params.terrain[param] = Number(v) })
setTerrainParam(param, v) ==
    /\ terrain' = [terrain EXCEPT ![param] = v]
    /\ lastOp' = "setState"
    /\ thrown' = FALSE
    /\ rebuild' = <<0, 0>>
    /\ onceGrid' = << >>
    /\ UNCHANGED <<grid, size, configured, populated, setCalls, generatedWith, view>>

SetScale == GuiIdle /\ \E v \in ScaleChoices : setTerrainParam("scale", v)

SetMagnitude == GuiIdle /\ \E v \in MagnitudeChoices : setTerrainParam("magnitude", v)

SetOffset == GuiIdle /\ \E v \in GuiOffsetChoices : setTerrainParam("offset", v)

SetSeed == GuiIdle /\ \E v \in GuiSeedChoices : setTerrainParam("seed", v)

\* variant: the two calls of the mount effect exchanged
MountInitialize_GenerateFirst == lastOp = "create" /\ GenerateTerrain

\* the mount effect's first call: initializeGrid()
MountInitialize == lastOp = "create" /\ InitializeGridDefault

\* the generateTerrain() call that ends the mount effect and the handlers of
\* both 'Generate world' buttons
HandlerGenerate == lastOp = "initializeGrid" /\ GenerateTerrain

\* button 'Update terrain'
UpdateTerrainClick == GuiIdle /\ GenerateTerrain

\* button 'Generate world': initializeGrid(the size controllers' values), then
\* HandlerGenerate
GenerateWorldClick == GuiIdle /\ InitializeGridWith

\* button 'Generate world with new seed', first call:
\* useAppStore.setState(state => { state.world.params.terrain.seed++ })
NewSeedClick ==
    /\ GuiIdle
    /\ terrain.seed < SeedBase + MaxSeedClicks
    /\ terrain' = [terrain EXCEPT !.seed = @ + 1]
    /\ lastOp' = "incrementSeed"
    /\ thrown' = FALSE
    /\ rebuild' = <<0, 0>>
    /\ onceGrid' = << >>
    /\ UNCHANGED <<grid, size, configured, populated, setCalls, generatedWith, view>>

\* its second call: initializeGrid(the size controllers' values), then
\* HandlerGenerate
NewSeedInitialize == lastOp = "incrementSeed" /\ InitializeGridWith

NextGui ==
    \/ MountInitialize
    \/ HandlerGenerate
    \/ UpdateTerrainClick
    \/ GenerateWorldClick
    \/ NewSeedClick
    \/ NewSeedInitialize
    \/ SetScale
    \/ SetMagnitude
    \/ SetOffset
    \/ SetSeed

SpecGui == Init /\ [][NextGui]_vars

------------------------------------------------------------------------------
(* Vocabulary of the properties *)

WorldSizeX == size.chunkCountX * size.blocksPerChunkX
WorldSizeY == size.blocksPerChunkY
WorldSizeZ == size.chunkCountZ * size.blocksPerChunkZ

\* the coordinates of the world's extents, by the stored size params
WorldCoords == (0 .. WorldSizeX - 1) \X (0 .. WorldSizeY - 1) \X (0 .. WorldSizeZ - 1)

WorldColumns == (0 .. WorldSizeX - 1) \X (0 .. WorldSizeZ - 1)

\* the coordinates the properties are checked at: the world's coordinates
\* and those one step outside it, where every neighbour of a block lies
ProbeCoords ==
    (-1 .. WorldSizeX) \X (-1 .. WorldSizeY) \X (-1 .. WorldSizeZ)

InExtents(c) ==
    /\ 0 <= c[1] /\ c[1] < WorldSizeX
    /\ 0 <= c[2] /\ c[2] < WorldSizeY
    /\ 0 <= c[3] /\ c[3] < WorldSizeZ

OnBoundary(c) ==
    \/ c[1] = 0 \/ c[1] = WorldSizeX - 1
    \/ c[2] = 0 \/ c[2] = WorldSizeY - 1
    \/ c[3] = 0 \/ c[3] = WorldSizeZ - 1

SixNeighbours(c) ==
    { <<c[1] + 1, c[2], c[3]>>, <<c[1] - 1, c[2], c[3]>>,
      <<c[1], c[2] + 1, c[3]>>, <<c[1], c[2] - 1, c[3]>>,
      <<c[1], c[2], c[3] + 1>>, <<c[1], c[2], c[3] - 1>> }

\* the blocks the grid holds, whatever their place in the nested arrays
GridBlocks(g) ==
    UNION { UNION { UNION { UNION { { g[a][b][c][d][e] : e \in DOMAIN g[a][b][c][d] }
                                    : d \in DOMAIN g[a][b][c] }
                            : c \in DOMAIN g[a][b] }
                    : b \in DOMAIN g[a] }
            : a \in DOMAIN g }

\* the number of blocks of the list bl whose position is c
BlocksAt(bl, c) == Cardinality({k \in DOMAIN bl : bl[k].position = c})

TypeAt(c) == getBlock(c[1], c[2], c[3]).type

\* the grid with every block reduced to its type
TypesOf(g) ==
    [a \in DOMAIN g |-> [b \in DOMAIN g[a] |-> [c \in DOMAIN g[a][b] |->
        [d \in DOMAIN g[a][b][c] |-> [e \in DOMAIN g[a][b][c][d] |->
            g[a][b][c][d][e].type]]]]]

Generated == lastOp = "generateTerrain" /\ ~thrown

------------------------------------------------------------------------------
(* Properties *)

\* C1: once initializeGrid has run, after any further initializeGrid,
\* generateTerrain and setBlockType calls, every coordinate of the world's
\* extents resolves through getBlock to a block, that block's position is the
\* coordinate, and it is the only block of the grid with that position.
C1_EveryCoordinateResolves ==
    configured =>
        LET bl == blockList
        IN  \A c \in WorldCoords :
                /\ getBlock(c[1], c[2], c[3]) # Null
                /\ getBlock(c[1], c[2], c[3]).position = c
                /\ BlocksAt(bl, c) = 1

\* a world of several chunks along x and several blocks per chunk along z,
\* regenerated and edited, whose far corner resolves
C1_Witness ==
    /\ configured /\ lastOp = "setBlockType" /\ rebuild = <<0, 0>>
    /\ size.chunkCountX > 1 /\ size.blocksPerChunkZ > 1
    /\ getBlock(WorldSizeX - 1, WorldSizeY - 1, WorldSizeZ - 1) # Null
    /\ \E c \in WorldCoords : TypeAt(c) = "Air"

\* C2 (as claimed): in every reachable state and at every integer coordinate,
\* getBlock returns null exactly when isBlockInBounds is false.
C2_NullIffOutOfBounds ==
    \A c \in ProbeCoords :
        (getBlock(c[1], c[2], c[3]) = Null) <=> ~isBlockInBounds(c[1], c[2], c[3])

\* C3: a generateTerrain run yields, at every place of the grid, the type the
\* first run after initializeGrid yielded for the same dims and terrain
\* params, whatever calls (initializeGrid, setBlockType, generateTerrain) ran
\* in between and whatever types the grid held before the run.
C3_SameTypesOnEveryRun ==
    (Generated /\ onceGrid # << >>) => TypesOf(grid) = TypesOf(onceGrid[1])

\* a later run, made after setBlockType calls edited the first run's grid
C3_Witness ==
    /\ Generated /\ onceGrid # << >>
    /\ setCalls = MaxSetCalls /\ rebuild = <<0, 0>>
    /\ \E c \in WorldCoords : TypeAt(c) = "Air"
    /\ \E c \in WorldCoords : TypeAt(c) = "Dirt"

\* the types of column (x, z) by increasing y
ColumnTypes(x, z) == [y \in 1 .. WorldSizeY |-> TypeAt(<<x, y - 1, z>>)]

\* d times Dirt, then g times Grass, then Air
IsProfile(col, d, g) ==
    \A y \in DOMAIN col :
        col[y] = IF y <= d THEN "Dirt" ELSE IF y <= d + g THEN "Grass" ELSE "Air"

SolidType(t) == t \in {"Dirt", "Grass"}

\* the grid holds a block at position n, and its type is solid
HoldsSolid(n) ==
    \E a \in DOMAIN grid : \E b \in DOMAIN grid[a] : \E c \in DOMAIN grid[a][b] :
        \E d \in DOMAIN grid[a][b][c] : \E e \in DOMAIN grid[a][b][c][d] :
            /\ grid[a][b][c][d][e].position = n
            /\ SolidType(grid[a][b][c][d][e].type)

\* (x, y, z) is within the world's extents and holds a solid block
SolidInside(x, y, z) ==
    /\ 0 <= x /\ x < WorldSizeX
    /\ 0 <= y /\ y < WorldSizeY
    /\ 0 <= z /\ z < WorldSizeZ
    /\ HoldsSolid(<<x, y, z>>)

\* C5: at every coordinate and in every state of the grid, isBlockObscured is
\* true exactly when each of the six axis-adjacent coordinates is within the
\* world's extents and holds a block of a solid type.
C5_ObscuredIffSixSolid ==
    \A c \in ProbeCoords :
        isBlockObscured(c[1], c[2], c[3])
            <=> /\ SolidInside(c[1] + 1, c[2], c[3])
                /\ SolidInside(c[1] - 1, c[2], c[3])
                /\ SolidInside(c[1], c[2] + 1, c[3])
                /\ SolidInside(c[1], c[2] - 1, c[3])
                /\ SolidInside(c[1], c[2], c[3] + 1)
                /\ SolidInside(c[1], c[2], c[3] - 1)

\* an edited grid that holds Air and solid blocks, with an obscured block
C5_Witness ==
    /\ configured /\ lastOp = "setBlockType"
    /\ \E c \in WorldCoords : TypeAt(c) = "Air"
    /\ \E c \in WorldCoords : isBlockObscured(c[1], c[2], c[3])

\* C6: a block on the world's boundary is never classified obscured.
C6_BoundaryNeverObscured ==
    \A c \in WorldCoords : OnBoundary(c) => ~isBlockObscured(c[1], c[2], c[3])

\* a boundary block all of whose neighbours inside the world are solid
C6_Witness ==
    /\ configured
    /\ \E c \in WorldCoords :
          /\ c[2] = WorldSizeY - 1 /\ c[2] > 0
          /\ 0 < c[1] /\ c[1] < WorldSizeX - 1
          /\ 0 < c[3] /\ c[3] < WorldSizeZ - 1
          /\ \A n \in SixNeighbours(c) : InExtents(n) => HoldsSolid(n)

\* C7: the visible-block list holds exactly the blocks of the grid that are
\* not Air and not obscured, each once.
C7_VisibleListExact ==
    LET sl == solidBlockList
    IN  /\ {sl[k] : k \in DOMAIN sl}
             = {b \in GridBlocks(grid) :
                   /\ b.type # "Air"
                   /\ ~isBlockObscured(b.position[1], b.position[2], b.position[3])}
        /\ \A j, k \in DOMAIN sl : sl[j] = sl[k] => j = k

\* a grid with an Air block, an obscured solid block and a visible block
C7_Witness ==
    /\ \E b \in GridBlocks(grid) : b.type = "Air"
    /\ \E b \in GridBlocks(grid) :
          /\ b.type # "Air"
          /\ isBlockObscured(b.position[1], b.position[2], b.position[3])
    /\ Len(solidBlockList) >= 1

\* C8: initializeGrid twice with the same dims, then generateTerrain twice,
\* leaves the grid (shape, and type, position and instanceId of every block)
\* that initializeGrid once and generateTerrain once left for those dims.
C8_IdempotentRebuild ==
    (rebuild = <<2, 2>> /\ onceGrid # << >>) => grid = onceGrid[1]

C8_Witness ==
    /\ rebuild = <<2, 2>> /\ onceGrid # << >> /\ Generated
    /\ WorldSizeY > 1
    /\ \E c \in WorldCoords : TypeAt(c) = "Air"

\* floor(blocksPerChunkY * (offset + magnitude * n)), n the noise of column (x, z)
RawHeight(x, z) ==
    (size.blocksPerChunkY
        * (terrain.offset * NoiseUnit
           + terrain.magnitude * simplex(terrain.seed, x, z, terrain.scale)))
    \div (NoiseUnit * NoiseUnit)

\* that height, clamped to [0, blocksPerChunkY - 1]
ExpectedHeight(x, z) ==
    IF RawHeight(x, z) < 0 THEN 0
    ELSE IF RawHeight(x, z) > size.blocksPerChunkY - 1 THEN size.blocksPerChunkY - 1
    ELSE RawHeight(x, z)

\* C9: after generateTerrain the block at (x, y, z) is Air above the clamped
\* height of its column, Grass at it and Dirt below it.
C9_TypesFollowHeight ==
    Generated =>
        \A c \in WorldCoords :
            TypeAt(c) = IF c[2] > ExpectedHeight(c[1], c[3]) THEN "Air"
                        ELSE IF c[2] = ExpectedHeight(c[1], c[3]) THEN "Grass"
                        ELSE "Dirt"

\* a generated world with a column clamped from below, one clamped from above
\* and one with an unclamped height
C9_Witness ==
    /\ Generated
    /\ \E xz \in WorldColumns : RawHeight(xz[1], xz[2]) < 0
    /\ \E xz \in WorldColumns : RawHeight(xz[1], xz[2]) > WorldSizeY - 1
    /\ \E xz \in WorldColumns :
          0 < RawHeight(xz[1], xz[2]) /\ RawHeight(xz[1], xz[2]) < WorldSizeY - 1

\* C10 (as claimed): right after initializeGrid every block of the grid has
\* type Air and instanceId null.
C10_AllocatedAsAir ==
    lastOp = "initializeGrid" =>
        \A b \in GridBlocks(grid) : b.type = "Air" /\ b.instanceId = Null

\* C11: a generateTerrain call made before any initializeGrid call ends with
\* an exception that reaches the caller, and leaves the grid, the size params
\* and the terrain params as they were.
C11_GenerateBeforeInitializeThrows ==
    [][(~configured /\ lastOp' = "generateTerrain")
          => (thrown' /\ grid' = grid /\ size' = size /\ terrain' = terrain)]_vars

\* generateTerrain has run on the store as created and has thrown
C11_Witness ==
    /\ ~configured /\ lastOp = "generateTerrain" /\ thrown
    /\ grid = EmptyGrid /\ size = InitialSize

\* C12 (as claimed): an initializeGrid call with a non-positive chunk count
\* or blocks-per-chunk value changes neither the grid nor the size params,
\* and a generateTerrain call made while the scale is non-positive changes
\* neither of them either.
C12_InvalidConfigurationRejected ==
    /\ [][(\E d \in NonPositiveDimsChoices : initializeGrid(d))
             => (grid' = grid /\ size' = size)]_vars
    /\ [][(terrain.scale <= 0 /\ lastOp' = "generateTerrain")
             => (grid' = grid /\ size' = size)]_vars

\* the grid g with the type of every block at position c set to t, and
\* nothing else changed
WithTypeAt(g, c, t) ==
    [a \in DOMAIN g |-> [b \in DOMAIN g[a] |-> [k \in DOMAIN g[a][b] |->
        [d \in DOMAIN g[a][b][k] |-> [e \in DOMAIN g[a][b][k][d] |->
            IF g[a][b][k][d][e].position = c
            THEN [g[a][b][k][d][e] EXCEPT !.type = t]
            ELSE g[a][b][k][d][e]]]]]]

\* C13 (as claimed): a setBlockType(x, y, z, type) call at a coordinate that
\* isBlockInBounds rejects leaves the whole grid unchanged; at a coordinate it
\* accepts, the block at (x, y, z) has the given type afterwards, and every
\* other block, and that block's position and instanceId, are unchanged.
C13_SetBlockTypeFrame ==
    [][\A c \in CoordChoices, t \in BlockType :
          setBlockType(c[1], c[2], c[3], t) =>
              IF ~isBlockInBounds(c[1], c[2], c[3])
              THEN grid' = grid
              ELSE /\ getBlock(c[1], c[2], c[3])' # Null
                   /\ getBlock(c[1], c[2], c[3])'.type = t
                   /\ grid' = WithTypeAt(grid, c, t)]_vars

\* the grid with every block reduced to its position and instanceId
PlacesOf(g) ==
    [a \in DOMAIN g |-> [b \in DOMAIN g[a] |-> [k \in DOMAIN g[a][b] |->
        [d \in DOMAIN g[a][b][k] |-> [e \in DOMAIN g[a][b][k][d] |->
            <<g[a][b][k][d][e].position, g[a][b][k][d][e].instanceId>>]]]]]

\* C14: a generateTerrain call on a grid that initializeGrid has allocated
\* ends without an exception and leaves the number of chunks and of blocks per
\* chunk, every block's position and instanceId, the size params and the
\* terrain params as they were.
C14_GenerateKeepsPlaces ==
    [][(configured /\ lastOp' = "generateTerrain")
          => /\ ~thrown'
             /\ PlacesOf(grid') = PlacesOf(grid)
             /\ size' = size
             /\ terrain' = terrain]_vars

\* generateTerrain has run on a grid of several chunks that setBlockType had
\* edited, and has put Grass and Air into it
C14_Witness ==
    /\ configured /\ Generated /\ setCalls = MaxSetCalls
    /\ size.chunkCountX > 1 /\ WorldSizeY > 1
    /\ \E c \in WorldCoords : TypeAt(c) = "Grass"
    /\ \E c \in WorldCoords : TypeAt(c) = "Air"
    /\ \A c \in WorldCoords : getBlock(c[1], c[2], c[3]).position = c

\* the store's phase: Unconfigured until the first initializeGrid, Configured
\* from then until the first generateTerrain that runs to its end, Populated
\* after it
Phase ==
    IF ~configured THEN "Unconfigured"
    ELSE IF ~populated THEN "Configured"
    ELSE "Populated"

StoreCall == lastOp' \in {"initializeGrid", "generateTerrain"}

\* C15: the store leaves Unconfigured only through initializeGrid, into
\* Configured; from Configured or Populated every initializeGrid and every
\* generateTerrain call ends without an exception; generateTerrain called
\* there leaves the store Populated, and no call takes a Populated store
\* back to Configured or Unconfigured.
C15_StateMachine ==
    /\ [][Phase = "Unconfigured" =>
             Phase' = IF lastOp' = "initializeGrid" THEN "Configured"
                      ELSE "Unconfigured"]_vars
    /\ [][(Phase # "Unconfigured" /\ StoreCall) => ~thrown']_vars
    /\ [][(Phase # "Unconfigured" /\ lastOp' = "generateTerrain")
             => Phase' = "Populated"]_vars
    /\ [][(Phase = "Configured" /\ lastOp' # "generateTerrain")
             => Phase' = "Configured"]_vars
    /\ [][Phase = "Populated" => Phase' = "Populated"]_vars

\* a Populated store on which initializeGrid with other dims and then
\* generateTerrain have run again
C15_Witness ==
    /\ Phase = "Populated" /\ Generated
    /\ rebuild = <<1, 1>> /\ onceGrid # << >>
    /\ setCalls = MaxSetCalls
    /\ size # InitialSize

\* C16 (as claimed): at every integer coordinate, negative ones included,
\* worldToBlockCoords yields the floored quotients as chunk indices and the
\* floored remainders as local indices: each local index is at least 0 and
\* below its blocks-per-chunk value, and chunk index times blocks per chunk
\* plus local index gives x, and z, back.
C16_FlooredModulo ==
    \A c \in ProbeCoords :
        LET w == worldToBlockCoords(c[1], c[2], c[3])
        IN  /\ w.chunkX = c[1] \div size.blocksPerChunkX
            /\ w.chunkZ = c[3] \div size.blocksPerChunkZ
            /\ w.blockX = c[1] % size.blocksPerChunkX
            /\ w.blockY = c[2] % size.blocksPerChunkY
            /\ w.blockZ = c[3] % size.blocksPerChunkZ
            /\ 0 <= w.blockX /\ w.blockX < size.blocksPerChunkX
            /\ 0 <= w.blockY /\ w.blockY < size.blocksPerChunkY
            /\ 0 <= w.blockZ /\ w.blockZ < size.blocksPerChunkZ
            /\ w.chunkX * size.blocksPerChunkX + w.blockX = c[1]
            /\ w.chunkZ * size.blocksPerChunkZ + w.blockZ = c[3]

\* C17: in every state, with the size params the store holds in that state,
\* isBlockInBounds(x, y, z) is true exactly for the coordinates with
\* 0 <= x < chunkCountX * blocksPerChunkX, 0 <= y < blocksPerChunkY and
\* 0 <= z < chunkCountZ * blocksPerChunkZ.
C17_InBoundsIffInExtents ==
    \A c \in ProbeCoords :
        isBlockInBounds(c[1], c[2], c[3]) <=> c \in WorldCoords

\* initializeGrid has stored dims other than the initial ones; the far corner
\* of the new extents is in bounds, the coordinates one step past it are not
C17_Witness ==
    /\ lastOp = "initializeGrid" /\ size # InitialSize
    /\ size.chunkCountZ > 1 /\ size.blocksPerChunkZ > 1
    /\ isBlockInBounds(WorldSizeX - 1, WorldSizeY - 1, WorldSizeZ - 1)
    /\ ~isBlockInBounds(WorldSizeX, WorldSizeY - 1, WorldSizeZ - 1)
    /\ ~isBlockInBounds(WorldSizeX - 1, WorldSizeY, WorldSizeZ - 1)
    /\ ~isBlockInBounds(WorldSizeX - 1, WorldSizeY - 1, WorldSizeZ)

\* C18: while blocksPerChunkY is 1, whatever types the blocks have, no
\* coordinate of the world is classified obscured and the visible-block list
\* holds exactly the blocks that are not Air; when every block is Dirt it is
\* the whole block list.
C18_FlatWorldAllVisible ==
    size.blocksPerChunkY = 1 =>
        /\ \A c \in WorldCoords : ~isBlockObscured(c[1], c[2], c[3])
        /\ solidBlockList = SelectSeq(blockList, LAMBDA b : b.type # "Air")
        /\ (\A c \in WorldCoords : TypeAt(c) = "Dirt") => solidBlockList = blockList

\* a one-block-high world more than two blocks wide along x and z, all Dirt:
\* its inner blocks have four solid neighbours, and all blocks are listed
C18_Witness ==
    /\ size.blocksPerChunkY = 1 /\ WorldSizeX >= 3 /\ WorldSizeZ >= 3
    /\ \A c \in WorldCoords : TypeAt(c) = "Dirt"
    /\ Len(solidBlockList) = WorldSizeX * WorldSizeZ

\* the coordinates of the world that are not on its boundary
InnerCoords == {c \in WorldCoords : ~OnBoundary(c)}

Abs(n) == IF n >= 0 THEN n ELSE -n

\* the coordinates of the world at most two axis steps away from p, p included
WithinTwoSteps(p) ==
    {c \in WorldCoords : Abs(c[1] - p[1]) + Abs(c[2] - p[2]) + Abs(c[3] - p[3]) <= 2}

\* the list sl holds a block whose position is c
Listed(sl, c) == \E k \in DOMAIN sl : sl[k].position = c

\* the world holds a solid block at every coordinate at most two steps from p
SolidAround(p) ==
    \A c \in WithinTwoSteps(p) : isSolidBlock(getBlock(c[1], c[2], c[3]))

\* the six neighbours of c are in the world and solid
SixSolid(c) == \A n \in SixNeighbours(c) : SolidInside(n[1], n[2], n[3])

\* what C19 states of the grid after the call, for the emptied block p
AfterCavity(p) ==
    \E sl \in {solidBlockList} :
        /\ \A n \in SixNeighbours(p) :
              ~isBlockObscured(n[1], n[2], n[3]) /\ Listed(sl, n)
        /\ ~Listed(sl, p)
        /\ \A c \in WorldCoords : SixSolid(c) => isBlockObscured(c[1], c[2], c[3])

\* C19: when an inner block p and every block at most two steps from p is
\* solid, a setBlockType(p, Air) call leaves a grid in which none of the six
\* neighbours of p is classified obscured, each of them is in the
\* visible-block list, p is not in it, and every block whose six neighbours
\* are all solid is classified obscured.
C19_CavityExposesNeighbours ==
    [][\A p \in InnerCoords :
          (setBlockType(p[1], p[2], p[3], "Air") /\ SolidAround(p))
              => AfterCavity(p)']_vars

\* an inner block has been emptied; an inner neighbour of it, its other five
\* neighbours solid, is listed and not obscured; a block two steps away is
\* still obscured
C19_Witness ==
    /\ lastOp = "setBlockType"
    /\ \E p \in InnerCoords :
          /\ TypeAt(p) = "Air"
          /\ \A c \in WithinTwoSteps(p) \ {p} : SolidInside(c[1], c[2], c[3])
          /\ \E sl \in {solidBlockList} : \E n \in SixNeighbours(p) \cap InnerCoords :
                ~isBlockObscured(n[1], n[2], n[3]) /\ Listed(sl, n)
          /\ \E c \in WithinTwoSteps(p) \ {p} : isBlockObscured(c[1], c[2], c[3])

\* C20 (as claimed): in the store of src/src/App.tsx getBlock returns null at
\* every coordinate outside the world's extents, and a setBlockType call at
\* such a coordinate leaves every block of the grid as it was.
C20_AppOutsideIsNull ==
    /\ [](\A c \in ProbeCoords :
            ~InExtents(c) => App_getBlock(c[1], c[2], c[3], grid) = Null)
    /\ [][\A c \in CoordChoices :
            (~InExtents(c) /\ lastOp' = "setBlockType"
                /\ \E t \in App_BlockType :
                      grid' = App_setBlockType(c[1], c[2], c[3], t, grid))
            => grid' = grid]_vars

\* the nested arrays of g have the lengths the size params s give
HasShape(g, s) ==
    /\ Len(g) = s.chunkCountX
    /\ \A a \in DOMAIN g :
          /\ Len(g[a]) = s.chunkCountZ
          /\ \A b \in DOMAIN g[a] :
                /\ Len(g[a][b]) = s.blocksPerChunkX
                /\ \A k \in DOMAIN g[a][b] :
                      /\ Len(g[a][b][k]) = s.blocksPerChunkY
                      /\ \A d \in DOMAIN g[a][b][k] :
                            Len(g[a][b][k][d]) = s.blocksPerChunkZ

\* every block of g is as newly allocated: the default type, no instanceId
AllFresh(g) ==
    \A a \in DOMAIN g : \A b \in DOMAIN g[a] : \A k \in DOMAIN g[a][b] :
        \A d \in DOMAIN g[a][b][k] : \A e \in DOMAIN g[a][b][k][d] :
            /\ g[a][b][k][d][e].type = "Dirt"
            /\ g[a][b][k][d][e].instanceId = Null

\* C21: once initializeGrid has run, the grid has chunkCountX x chunkCountZ
\* chunks of blocksPerChunkX x blocksPerChunkY x blocksPerChunkZ blocks by the
\* stored size params, and no two blocks have the same position; right after
\* an initializeGrid call every block is a newly allocated one, none is a
\* block of the grid before the call.
C21_ShapeFollowsSize ==
    configured =>
        /\ HasShape(grid, size)
        /\ \E bl \in {blockList} :
              /\ Len(bl) = WorldSizeX * WorldSizeY * WorldSizeZ
              /\ Cardinality({bl[k].position : k \in DOMAIN bl}) = Len(bl)
        /\ lastOp = "initializeGrid" => AllFresh(grid)

\* initializeGrid has run on a generated and edited grid, with dims other
\* than the initial ones and with several chunks
C21_Witness ==
    /\ lastOp = "initializeGrid" /\ populated /\ setCalls = MaxSetCalls
    /\ size # InitialSize /\ size.chunkCountX > 1 /\ size.blocksPerChunkY > 1
    /\ HasShape(grid, size)

\* the component has rendered the selector's current result
Quiescent == view.seen = grid

\* C22: whenever the component has rendered the store's current grid, the
\* block list it hands to the instanced mesh is the visibility filter applied
\* to that grid: the list is never one derived from an earlier grid.
C22_RenderedListCurrent ==
    Quiescent => view.rendered = solidBlockList

\* a rendered world of 27 blocks with an obscured block, after a setBlockType
\* call that turned a bottom block (never Air after initializeGrid or
\* generateTerrain) into Air
C22_Witness ==
    /\ Quiescent /\ lastOp = "setBlockType" /\ populated
    /\ size = InitialSize
    /\ TypeAt(<<0, 0, 0>>) = "Air"
    /\ isBlockObscured(1, 1, 1)
    /\ view.rendered # << >>

\* Math.floor(blocksPerChunkY * (offset + magnitude * noise)) of column
\* (x, z) for the terrain params t, clamped to [0, blocksPerChunkY - 1]
HeightWith(t, x, z) ==
    LET raw == (size.blocksPerChunkY
                   * (t.offset * NoiseUnit
                      + t.magnitude * simplex(t.seed, x, z, t.scale)))
               \div (NoiseUnit * NoiseUnit)
    IN  IF raw < 0 THEN 0
        ELSE IF raw > size.blocksPerChunkY - 1 THEN size.blocksPerChunkY - 1
        ELSE raw

\* the grid's types are those generateTerrain writes for the terrain params t
TerrainOf(t) ==
    \A c \in WorldCoords :
        \E h \in {HeightWith(t, c[1], c[3])} :
            TypeAt(c) = IF c[2] > h THEN "Air"
                        ELSE IF c[2] = h THEN "Grass"
                        ELSE "Dirt"

\* C23: driven by the mount effect and the buttons, generateTerrain never
\* runs before initializeGrid has (it never throws), initializeGrid is always
\* followed at once by generateTerrain, and whenever no handler is running
\* the grid holds generated terrain, not the fill of initializeGrid.
C23_InitializeThenGenerate ==
    /\ [](lastOp = "generateTerrain" => configured /\ ~thrown)
    /\ [][lastOp = "initializeGrid" => lastOp' = "generateTerrain"]_vars
    /\ [](GuiIdle => /\ populated
                     /\ generatedWith # << >>
                     /\ \E t \in {generatedWith[k] : k \in DOMAIN generatedWith} :
                           TerrainOf(t))

\* the 'Generate world' handler has run to its end on a world other than the
\* mount effect's, with terrain params that were edited before
C23_Witness ==
    /\ GuiIdle /\ lastOp = "generateTerrain" /\ rebuild = <<1, 1>>
    /\ size # InitialSize /\ WorldSizeY > 1
    /\ terrain.seed = SeedLimit
    /\ grid # initializedGrid(size)

TerrainParams == {"scale", "magnitude", "offset", "seed"}

\* C24: a terrain controller's handler changes the one stored param and
\* nothing else: the grid (every block's type, position and instanceId) and
\* the size params stay as they are, so that after it the grid's types are
\* still those of the params the last generateTerrain call read.
C24_SetterChangesOneParam ==
    /\ [][lastOp' = "setState" =>
            /\ grid' = grid
            /\ size' = size
            /\ \E p \in TerrainParams :
                  \A q \in TerrainParams \ {p} : terrain'[q] = terrain[q]]_vars
    /\ [](lastOp = "setState" =>
            /\ generatedWith # << >>
            /\ \A k \in DOMAIN generatedWith : TerrainOf(generatedWith[k]))

\* after a controller's handler the stored params are no longer those of the
\* generated terrain, and would generate other types
C24_Witness ==
    /\ lastOp = "setState" /\ populated
    /\ generatedWith # <<terrain>>
    /\ ~TerrainOf(terrain)
    /\ WorldSizeY > 1

\* the heights y at which column (x, z) holds a Grass block
GrassHeights(x, z) == {y \in 0 .. WorldSizeY - 1 : TypeAt(<<x, y, z>>) = "Grass"}

\* C25: after generateTerrain every column of the world holds exactly one
\* Grass block, and its block at y = 0 is solid.
C25_OneGrassPerColumn ==
    Generated =>
        \A xz \in WorldColumns :
            /\ Cardinality(GrassHeights(xz[1], xz[2])) = 1
            /\ isSolidBlock(getBlock(xz[1], 0, xz[2]))

\* terrain generated over an edited grid, with a column whose height was
\* clamped from below (raw height negative) and one whose Grass block is at
\* the top of the world
C25_Witness ==
    /\ Generated /\ setCalls = MaxSetCalls /\ WorldSizeY > 1
    /\ \E xz \in WorldColumns :
          RawHeight(xz[1], xz[2]) < 0 /\ GrassHeights(xz[1], xz[2]) = {0}
    /\ \E xz \in WorldColumns : GrassHeights(xz[1], xz[2]) = {WorldSizeY - 1}

\* C26: after generateTerrain every Grass block is in the visible-block list,
\* the coordinate above it being outside the world or holding Air.
C26_GrassVisible ==
    Generated =>
        \E sl \in {solidBlockList} :
            \A c \in WorldCoords :
                TypeAt(c) = "Grass" =>
                    /\ Listed(sl, c)
                    /\ \/ c[2] + 1 = WorldSizeY
                       \/ TypeAt(<<c[1], c[2] + 1, c[3]>>) = "Air"

\* generated terrain with a Grass block inside the world whose four side
\* neighbours and lower neighbour are solid: only the Air above exposes it
C26_Witness ==
    /\ Generated
    /\ \E c \in InnerCoords :
          /\ TypeAt(c) = "Grass"
          /\ \A n \in SixNeighbours(c) \ {<<c[1], c[2] + 1, c[3]>>} :
                SolidInside(n[1], n[2], n[3])
          /\ TypeAt(<<c[1], c[2] + 1, c[3]>>) = "Air"

\* C27 (as claimed): the stored terrain seed lies in [0, 10000] in every
\* reachable state.
C27_SeedInRange == terrain.seed \in 0 .. SeedLimit

====
